---- MODULE Spec2Model ----
(***************************************************************************)
(* A state-machine model of training.py, the training script of the image  *)
(* captioning project.  The script is one straight-line program; every     *)
(* statement group of it is one action, and pc is the position of the      *)
(* interpreter.  The Keras fit loop (EarlyStopping, LambdaCallback,        *)
(* History) that the script configures is unrolled into its lifecycle      *)
(* events: train begin, batch end, epoch end, train end.                   *)
(***************************************************************************)
EXTENDS Integers, Sequences, FiniteSets, TLC

(* ------------------------------ bounds -------------------------------- *)

\* EPOCHS (settings) is drawn from 1..MaxEpochs.
MaxEpochs == 6
\* A validation loss is one of 1..MaxLoss (smaller is better).
MaxLoss == 2
\* The train JSON holds 1..MaxTrain images, the validation JSON 1..MaxValid.
MaxTrain == 2
MaxValid == 3
\* Each word of WordList occurs 0..MaxCount times in the text corpus.
MaxCount == 2
\* MAX_VOCAB_SIZE, BATCH_SIZE (settings), scaled down.
MAX_VOCAB_SIZE == 3
BATCH_SIZE == 1

(* ------------------------ program constants --------------------------- *)

\* keras.callbacks.EarlyStopping(patience=3, restore_best_weights=True)
patience == 3
restore_best_weights == TRUE

\* The words of the (standardized) text corpus, in ascending order.
WordList == <<"a", "cat">>
Words == {WordList[i] : i \in 1..Len(WordList)}
WordIndex(w) == CHOOSE i \in 1..Len(WordList) : WordList[i] = w

VARIABLES
    pc,             \* position in the script
    crashedAt,      \* the position an uncaught exception was raised at
    cfg,            \* settings: TEST_SET, REDUCE_DATASET, EPOCHS
    files,          \* the three input JSON files
    train_data,     \* set of image ids
    valid_data,
    test_data,
    text_data,      \* the corpus: word -> number of occurrences
    tokenizer,      \* TextVectorization: vocabulary and number of adapt calls
    VOCAB_SIZE,
    datasets,       \* split -> what make_dataset built
    caption_model,  \* decoder vocab_size, weights, compiled
    fit,            \* the fit loop: epoch, batch, stop_training, history
    early_stopping, \* the EarlyStopping callback's fields
    metrics,        \* train_metrics, valid_metrics, test_metrics
    wandb_log,      \* every wandb.log call, in order
    run,            \* the wandb run: mirrored files, finished
    stdout,         \* the summary lines printed
    disk,           \* SAVE_DIR: the artifacts written, in order, and contents
    trace           \* the statements executed, in order

vars == <<pc, crashedAt, cfg, files, train_data, valid_data, test_data, text_data,
          tokenizer, VOCAB_SIZE, datasets, caption_model, fit, early_stopping,
          metrics, wandb_log, run, stdout, disk, trace>>

(* ------------------------------ helpers ------------------------------- *)

Min(a, b) == IF a <= b THEN a ELSE b

\* The statement at label runs and control moves to next.
Goto(label, next) ==
    /\ pc = label
    /\ pc' = next
    /\ trace' = Append(trace, label)

(* --------------------------- the collaborators ------------------------ *)

\* dataset.reduce_dataset_dim: shrinks a split (here: to its first half,
\* rounded up).
reduce_dataset_dim(data) == {i \in data : 2 * i <= Cardinality(data) + 1}

\* dataset.valid_test_split: validation and held-out test subsets at a fixed
\* ratio (20000 : 13432, about 3 : 2); the two are disjoint and cover data.
SplitPoint(n) == (3 * n + 4) \div 5
valid_test_split(data) ==
    [valid |-> {i \in data : i <= SplitPoint(Cardinality(data))},
     test  |-> {i \in data : i > SplitPoint(Cardinality(data))}]

\* TextVectorization.adapt: the vocabulary is "", "[UNK]" and then the corpus
\* words by descending count (ties: descending token), cut to max_tokens.
Before(corpus, v, w) ==
    \/ corpus[v] > corpus[w]
    \/ corpus[v] = corpus[w] /\ WordIndex(v) > WordIndex(w)

RECURSIVE ByCount(_, _)
ByCount(corpus, ws) ==
    IF ws = {} THEN <<>>
    ELSE LET top == CHOOSE v \in ws : \A w \in ws \ {v} : Before(corpus, v, w)
         IN  <<top>> \o ByCount(corpus, ws \ {top})

Adapt(corpus, max_tokens) ==
    LET all == <<"", "[UNK]">> \o ByCount(corpus, {w \in Words : corpus[w] > 0})
    IN  SubSeq(all, 1, Min(Len(all), max_tokens))

\* make_dataset(keys, values, data_aug, tokenizer): the batched dataset of a
\* split; it holds the tokenizer it was given.
make_dataset(images, data_aug, tok) ==
    [built |-> TRUE, images |-> images, data_aug |-> data_aug,
     vocab |-> tok.vocab, adapted |-> tok.adapts]

NoDataset == [built |-> FALSE, images |-> {}, data_aug |-> "", vocab |-> <<>>,
              adapted |-> 0]

\* Number of batches of a dataset.
NumBatches(ds) == (Cardinality(ds.images) + BATCH_SIZE - 1) \div BATCH_SIZE

(* ------------------------------- Init --------------------------------- *)

NoTokenizer == [defined |-> FALSE, max_tokens |-> 0, vocab |-> <<>>, adapts |-> 0]
NoMetrics == [evaluated |-> FALSE, split |-> "", images |-> {}, weights |-> 0]
NoHistory == [loss |-> <<>>, acc |-> <<>>, val_loss |-> <<>>, val_acc |-> <<>>]
Inf == [inf |-> TRUE, v |-> 0]

\* The settings module and the input files.  The runs explored are those of
\* every setting of TEST_SET and EPOCHS on the largest input files, and those
\* of every combination of input files, TEST_SET and REDUCE_DATASET with one
\* epoch.
Settings == [TEST_SET : BOOLEAN, REDUCE_DATASET : BOOLEAN, EPOCHS : 1..MaxEpochs]

Files == [train : {1..n : n \in 1..MaxTrain},
          valid : {1..m : m \in 1..MaxValid},
          text  : [Words -> 0..MaxCount]]

LargestFiles == [train |-> 1..MaxTrain, valid |-> 1..MaxValid,
                 text |-> [w \in Words |-> MaxCount]]

Inputs ==
    {[cfg |-> c, files |-> LargestFiles] : c \in {s \in Settings : ~s.REDUCE_DATASET}}
    \cup {[cfg |-> c, files |-> f] : c \in {s \in Settings : s.EPOCHS = 1}, f \in Files}

Init ==
    /\ pc = "load_data"
    /\ crashedAt = ""
    /\ \E i \in Inputs : cfg = i.cfg /\ files = i.files
    /\ train_data = {}
    /\ valid_data = {}
    /\ test_data = {}
    /\ text_data = [w \in Words |-> 0]
    /\ tokenizer = NoTokenizer
    /\ VOCAB_SIZE = 0
    /\ datasets = [s \in {"train", "valid", "test"} |-> NoDataset]
    /\ caption_model = [built |-> FALSE, vocab_size |-> 0, weights |-> 0,
                        compiled |-> FALSE]
    /\ fit = [epoch |-> 0, batch |-> 0, stop_training |-> FALSE,
              history |-> NoHistory, done |-> FALSE,
              restore_on_train_end |-> FALSE, validation_data |-> {}]
    /\ early_stopping = [wait |-> 0, best |-> Inf, best_epoch |-> 0,
                         has_best_weights |-> FALSE, best_weights |-> 0,
                         stopped_epoch |-> 0]
    /\ metrics = [s \in {"train", "valid", "test"} |-> NoMetrics]
    /\ wandb_log = <<>>
    /\ run = [saved |-> <<>>, finished |-> FALSE]
    /\ stdout = <<>>
    /\ disk = [order |-> <<>>, partial |-> {}, history |-> NoHistory,
               weights |-> 0, config_vocab_size |-> 0, config_epochs |-> 0,
               tokenizer_vocab |-> <<>>]
    /\ trace = <<>>

(* --------------------------- load and tokenizer ----------------------- *)

\* json.load of the three input files
LoadData ==
    /\ Goto("load_data", "reduce_dataset")
    /\ train_data' = files.train
    /\ valid_data' = files.valid
    /\ text_data' = files.text
    /\ UNCHANGED <<crashedAt, cfg, files, test_data, tokenizer, VOCAB_SIZE, datasets,
                   caption_model, fit, early_stopping, metrics, wandb_log, run,
                   stdout, disk>>

\* if REDUCE_DATASET: train_data, valid_data = reduce_dataset_dim(...)
ReduceDataset ==
    /\ Goto("reduce_dataset", "log_sample_counts")
    /\ train_data' = IF cfg.REDUCE_DATASET THEN reduce_dataset_dim(train_data)
                     ELSE train_data
    /\ valid_data' = IF cfg.REDUCE_DATASET THEN reduce_dataset_dim(valid_data)
                     ELSE valid_data
    /\ UNCHANGED <<crashedAt, cfg, files, test_data, text_data, tokenizer, VOCAB_SIZE,
                   datasets, caption_model, fit, early_stopping, metrics,
                   wandb_log, run, stdout, disk>>

\* print and wandb.log of the numbers of training and validation samples
SampleCounts(train, valid) ==
    ("Number of training samples" :> Cardinality(train))
        @@ ("Number of validation samples" :> Cardinality(valid))

LogSampleCounts ==
    /\ Goto("log_sample_counts", "define_tokenizer")
    /\ stdout' = stdout \o <<"Number of training samples", "Number of validation samples">>
    /\ wandb_log' = Append(wandb_log, SampleCounts(train_data, valid_data))
    /\ UNCHANGED <<crashedAt, cfg, files, train_data, valid_data, test_data, text_data,
                   tokenizer, VOCAB_SIZE, datasets, caption_model, fit,
                   early_stopping, metrics, run, disk>>

\* (Variant for C2: the adapt call is skipped.)
DefineTokenizerMutNoAdapt ==
    /\ Goto("define_tokenizer", "set_vocab_size")
    /\ tokenizer' = [defined |-> TRUE, max_tokens |-> MAX_VOCAB_SIZE,
                     vocab |-> <<"", "[UNK]">>, adapts |-> 0]
    /\ UNCHANGED <<crashedAt, cfg, files, train_data, valid_data, test_data, text_data,
                   VOCAB_SIZE, datasets, caption_model, fit, early_stopping,
                   metrics, wandb_log, run, stdout, disk>>

\* tokenizer = TextVectorization(max_tokens=MAX_VOCAB_SIZE, ...)
DefineTokenizer ==
    /\ Goto("define_tokenizer", "adapt_tokenizer")
    /\ tokenizer' = [defined |-> TRUE, max_tokens |-> MAX_VOCAB_SIZE,
                     vocab |-> <<"", "[UNK]">>, adapts |-> 0]
    /\ UNCHANGED <<crashedAt, cfg, files, train_data, valid_data, test_data, text_data,
                   VOCAB_SIZE, datasets, caption_model, fit, early_stopping,
                   metrics, wandb_log, run, stdout, disk>>

\* tokenizer.adapt(text_data)
AdaptTokenizer ==
    /\ Goto("adapt_tokenizer", "set_vocab_size")
    /\ tokenizer' = [tokenizer EXCEPT !.vocab = Adapt(text_data, tokenizer.max_tokens),
                                      !.adapts = @ + 1]
    /\ UNCHANGED <<crashedAt, cfg, files, train_data, valid_data, test_data, text_data,
                   VOCAB_SIZE, datasets, caption_model, fit, early_stopping,
                   metrics, wandb_log, run, stdout, disk>>

\* VOCAB_SIZE = len(tokenizer.get_vocabulary())
SetVocabSize ==
    /\ Goto("set_vocab_size", "split_valid_test")
    /\ VOCAB_SIZE' = Len(tokenizer.vocab)
    /\ UNCHANGED <<crashedAt, cfg, files, train_data, valid_data, test_data, text_data,
                   tokenizer, datasets, caption_model, fit, early_stopping,
                   metrics, wandb_log, run, stdout, disk>>

(* ------------------------ split and datasets -------------------------- *)

\* (Variant for C10: the split is made only under TEST_SET.)
SplitValidTestMutGated ==
    /\ Goto("split_valid_test", "make_train_dataset")
    /\ valid_data' = IF cfg.TEST_SET THEN valid_test_split(valid_data).valid
                     ELSE valid_data
    /\ test_data' = IF cfg.TEST_SET THEN valid_test_split(valid_data).test ELSE {}
    /\ stdout' = stdout \o <<"Number of validation samples after splitting with test set",
                             "Number of test samples">>
    /\ UNCHANGED <<crashedAt, cfg, files, train_data, text_data, tokenizer, VOCAB_SIZE,
                   datasets, caption_model, fit, early_stopping, metrics,
                   wandb_log, run, disk>>

\* valid_data, test_data = valid_test_split(valid_data), and the two prints
SplitValidTest ==
    /\ Goto("split_valid_test", "make_train_dataset")
    /\ valid_data' = valid_test_split(valid_data).valid
    /\ test_data' = valid_test_split(valid_data).test
    /\ stdout' = stdout \o <<"Number of validation samples after splitting with test set",
                             "Number of test samples">>
    /\ UNCHANGED <<crashedAt, cfg, files, train_data, text_data, tokenizer, VOCAB_SIZE,
                   datasets, caption_model, fit, early_stopping, metrics,
                   wandb_log, run, disk>>

\* train_dataset = make_dataset(..., data_aug=TRAIN_SET_AUG, tokenizer=tokenizer)
MakeTrainDataset ==
    /\ Goto("make_train_dataset", "make_valid_dataset")
    /\ datasets' = [datasets EXCEPT
                      !["train"] = make_dataset(train_data, "TRAIN_SET_AUG", tokenizer)]
    /\ UNCHANGED <<crashedAt, cfg, files, train_data, valid_data, test_data, text_data,
                   tokenizer, VOCAB_SIZE, caption_model, fit, early_stopping,
                   metrics, wandb_log, run, stdout, disk>>

\* valid_dataset = make_dataset(..., data_aug=VALID_SET_AUG, tokenizer=tokenizer)
MakeValidDataset ==
    /\ Goto("make_valid_dataset", "make_test_dataset")
    /\ datasets' = [datasets EXCEPT
                      !["valid"] = make_dataset(valid_data, "VALID_SET_AUG", tokenizer)]
    /\ UNCHANGED <<crashedAt, cfg, files, train_data, valid_data, test_data, text_data,
                   tokenizer, VOCAB_SIZE, caption_model, fit, early_stopping,
                   metrics, wandb_log, run, stdout, disk>>

\* if TEST_SET: test_dataset = make_dataset(..., data_aug=False, tokenizer=tokenizer)
BuildsTestDataset(test_set) == test_set

MakeTestDataset ==
    /\ Goto("make_test_dataset", "build_model")
    /\ datasets' = IF BuildsTestDataset(cfg.TEST_SET)
                   THEN [datasets EXCEPT
                           !["test"] = make_dataset(test_data, "False", tokenizer)]
                   ELSE datasets
    /\ UNCHANGED <<crashedAt, cfg, files, train_data, valid_data, test_data, text_data,
                   tokenizer, VOCAB_SIZE, caption_model, fit, early_stopping,
                   metrics, wandb_log, run, stdout, disk>>

(* ------------------------------- model -------------------------------- *)

\* (Variant for C9: the decoder is sized by MAX_VOCAB_SIZE.)
BuildModelMutMaxVocab ==
    /\ Goto("build_model", "compile")
    /\ caption_model' = [caption_model EXCEPT !.built = TRUE,
                                               !.vocab_size = MAX_VOCAB_SIZE]
    /\ UNCHANGED <<crashedAt, cfg, files, train_data, valid_data, test_data, text_data,
                   tokenizer, VOCAB_SIZE, datasets, fit, early_stopping, metrics,
                   wandb_log, run, stdout, disk>>

\* cnn_model, encoder, encoder2, decoder(vocab_size=VOCAB_SIZE), caption_model
BuildModel ==
    /\ Goto("build_model", "compile")
    /\ caption_model' = [caption_model EXCEPT !.built = TRUE,
                                               !.vocab_size = VOCAB_SIZE]
    /\ UNCHANGED <<crashedAt, cfg, files, train_data, valid_data, test_data, text_data,
                   tokenizer, VOCAB_SIZE, datasets, fit, early_stopping, metrics,
                   wandb_log, run, stdout, disk>>

\* loss, EarlyStopping, schedule, optimizer, caption_model.compile
Compile ==
    /\ Goto("compile", "fit_begin")
    /\ caption_model' = [caption_model EXCEPT !.compiled = TRUE]
    /\ UNCHANGED <<crashedAt, cfg, files, train_data, valid_data, test_data, text_data,
                   tokenizer, VOCAB_SIZE, datasets, fit, early_stopping, metrics,
                   wandb_log, run, stdout, disk>>

(* ------------------------------ fit loop ------------------------------ *)

\* A metric value: which metric, of which epoch and batch, and its value
\* (only the monitored validation loss is given one).
Measure(name, epoch, batch, v) == <<name, epoch, batch, v>>

\* The logs the framework hands to on_batch_end and on_epoch_end.
BatchLogs(epoch, batch) ==
    [loss |-> Measure("loss", epoch, batch, 0), acc |-> Measure("acc", epoch, batch, 0)]

EpochLogs(epoch, batch, v) ==
    [loss     |-> Measure("loss", epoch, batch, 0),
     acc      |-> Measure("acc", epoch, batch, 0),
     val_loss |-> Measure("val_loss", epoch, 0, v),
     val_acc  |-> Measure("val_acc", epoch, 0, 0)]

\* wandb_callback = LambdaCallback(on_batch_end=..., on_epoch_end=...)
wandb_on_batch_end(logs) ==
    ("batch_train_loss" :> logs.loss) @@ ("batch_train_accuracy" :> logs.acc)

\* (Variant for C8: the training loss is logged as the validation loss.)
wandb_on_epoch_end_MutTrainLossTwice(logs) ==
    ("epoch_train_loss" :> logs.loss) @@ ("epoch_valid_loss" :> logs.loss)
        @@ ("epoch_valid_accuracy" :> logs.val_acc)

wandb_on_epoch_end(logs) ==
    ("epoch_train_loss" :> logs.loss) @@ ("epoch_valid_loss" :> logs.val_loss)
        @@ ("epoch_valid_accuracy" :> logs.val_acc)

\* EarlyStopping(patience=3, restore_best_weights=True): monitor val_loss,
\* min_delta 0, mode min.
is_improvement(current, best) == best.inf \/ current < best.v

es_on_train_begin ==
    [wait |-> 0, best |-> Inf, best_epoch |-> 0, has_best_weights |-> FALSE,
     best_weights |-> 0, stopped_epoch |-> 0]

\* (Variant for C4: the loop stops one epoch late, wait > patience.)
es_on_epoch_end_MutLatePatience(es, epoch, current, weights) ==
    LET first == IF restore_best_weights /\ ~es.has_best_weights
                 THEN [es EXCEPT !.has_best_weights = TRUE, !.best_weights = weights]
                 ELSE es
        waited == [first EXCEPT !.wait = @ + 1]
        judged == IF is_improvement(current, waited.best)
                  THEN [waited EXCEPT !.best = [inf |-> FALSE, v |-> current],
                                      !.best_epoch = epoch,
                                      !.best_weights = weights,
                                      !.wait = 0]
                  ELSE waited
        stop == judged.wait > patience /\ epoch > 0
    IN  [es   |-> IF stop THEN [judged EXCEPT !.stopped_epoch = epoch] ELSE judged,
         stop |-> stop]

es_on_epoch_end(es, epoch, current, weights) ==
    LET first == IF restore_best_weights /\ ~es.has_best_weights
                 THEN [es EXCEPT !.has_best_weights = TRUE, !.best_weights = weights]
                 ELSE es
        waited == [first EXCEPT !.wait = @ + 1]
        judged == IF is_improvement(current, waited.best)
                  THEN [waited EXCEPT !.best = [inf |-> FALSE, v |-> current],
                                      !.best_epoch = epoch,
                                      !.best_weights = weights,
                                      !.wait = 0]
                  ELSE waited
        stop == judged.wait >= patience /\ epoch > 0
    IN  [es   |-> IF stop THEN [judged EXCEPT !.stopped_epoch = epoch] ELSE judged,
         stop |-> stop]

\* (Variant for C5: val_acc is not appended.)
history_on_epoch_end_MutNoValAcc(h, logs) ==
    [loss     |-> Append(h.loss, logs.loss),
     acc      |-> Append(h.acc, logs.acc),
     val_loss |-> Append(h.val_loss, logs.val_loss),
     val_acc  |-> h.val_acc]

\* History.on_epoch_end: history.setdefault(k, []).append(v) for every log
history_on_epoch_end(h, logs) ==
    [loss     |-> Append(h.loss, logs.loss),
     acc      |-> Append(h.acc, logs.acc),
     val_loss |-> Append(h.val_loss, logs.val_loss),
     val_acc  |-> Append(h.val_acc, logs.val_acc)]

\* caption_model.fit(...): on_train_begin.  The framework build decides where
\* EarlyStopping restores the best weights: when it stops the loop, or at
\* on_train_end.
FitBegin ==
    /\ Goto("fit_begin", "train_batch")
    /\ \E at_train_end \in BOOLEAN :
          fit' = [epoch |-> 0, batch |-> 0, stop_training |-> FALSE,
                  history |-> NoHistory, done |-> FALSE,
                  restore_on_train_end |-> at_train_end,
                  validation_data |-> datasets["valid"].images]
    /\ early_stopping' = es_on_train_begin
    /\ UNCHANGED <<crashedAt, cfg, files, train_data, valid_data, test_data, text_data,
                   tokenizer, VOCAB_SIZE, datasets, caption_model, metrics,
                   wandb_log, run, stdout, disk>>

\* One train step on a batch of train_dataset, then on_batch_end.
TrainBatch ==
    /\ pc = "train_batch"
    /\ trace' = Append(trace, "train_batch")
    /\ caption_model' = [caption_model EXCEPT !.weights = @ + 1]
    /\ wandb_log' = Append(wandb_log, wandb_on_batch_end(BatchLogs(fit.epoch, fit.batch)))
    /\ IF fit.batch + 1 < NumBatches(datasets["train"])
       THEN /\ fit' = [fit EXCEPT !.batch = @ + 1]
            /\ pc' = "train_batch"
       ELSE /\ fit' = fit
            /\ pc' = "epoch_end"
    /\ UNCHANGED <<crashedAt, cfg, files, train_data, valid_data, test_data, text_data,
                   tokenizer, VOCAB_SIZE, datasets, early_stopping, metrics, run,
                   stdout, disk>>

\* Validation on valid_dataset, then on_epoch_end of early_stopping,
\* wandb_callback and History, in that order; then the loop's test.
EpochEnd ==
    /\ pc = "epoch_end"
    /\ trace' = Append(trace, "epoch_end")
    /\ \E v \in 1..MaxLoss :
         LET logs == EpochLogs(fit.epoch, fit.batch, v)
             es   == es_on_epoch_end(early_stopping, fit.epoch, v, caption_model.weights)
             last == es.stop \/ fit.epoch + 1 >= cfg.EPOCHS
         IN  /\ early_stopping' = es.es
             /\ caption_model' =
                  IF es.stop /\ ~fit.restore_on_train_end /\ restore_best_weights
                  THEN [caption_model EXCEPT !.weights = es.es.best_weights]
                  ELSE caption_model
             /\ wandb_log' = Append(wandb_log, wandb_on_epoch_end(logs))
             /\ fit' = [fit EXCEPT !.history = history_on_epoch_end(@, logs),
                                   !.stop_training = es.stop,
                                   !.epoch = IF last THEN @ ELSE @ + 1,
                                   !.batch = IF last THEN @ ELSE 0]
             /\ pc' = IF last THEN "fit_end" ELSE "train_batch"
    /\ UNCHANGED <<crashedAt, cfg, files, train_data, valid_data, test_data, text_data,
                   tokenizer, VOCAB_SIZE, datasets, metrics, run, stdout, disk>>

\* (Variant for C1: control goes from fit straight to persistence.)
FitEndMutSkipEvaluate ==
    /\ Goto("fit_end", "save_history")
    /\ caption_model' =
         IF fit.restore_on_train_end /\ restore_best_weights
            /\ early_stopping.has_best_weights
         THEN [caption_model EXCEPT !.weights = early_stopping.best_weights]
         ELSE caption_model
    /\ fit' = [fit EXCEPT !.done = TRUE]
    /\ UNCHANGED <<crashedAt, cfg, files, train_data, valid_data, test_data, text_data,
                   tokenizer, VOCAB_SIZE, datasets, early_stopping, metrics,
                   wandb_log, run, stdout, disk>>

\* on_train_end; fit returns the History object.
FitEnd ==
    /\ Goto("fit_end", "evaluate_train")
    /\ caption_model' =
         IF fit.restore_on_train_end /\ restore_best_weights
            /\ early_stopping.has_best_weights
         THEN [caption_model EXCEPT !.weights = early_stopping.best_weights]
         ELSE caption_model
    /\ fit' = [fit EXCEPT !.done = TRUE]
    /\ UNCHANGED <<crashedAt, cfg, files, train_data, valid_data, test_data, text_data,
                   tokenizer, VOCAB_SIZE, datasets, early_stopping, metrics,
                   wandb_log, run, stdout, disk>>

(* ----------------------------- evaluation ----------------------------- *)

\* caption_model.evaluate(dataset, batch_size=BATCH_SIZE): [loss, accuracy] of
\* the current weights on the dataset.
evaluate(split) ==
    [evaluated |-> TRUE, split |-> split, images |-> datasets[split].images,
     weights |-> caption_model.weights]

\* train_metrics = caption_model.evaluate(train_dataset, ...)
EvaluateTrain ==
    /\ Goto("evaluate_train", "evaluate_valid")
    /\ metrics' = [metrics EXCEPT !["train"] = evaluate("train")]
    /\ UNCHANGED <<crashedAt, cfg, files, train_data, valid_data, test_data, text_data,
                   tokenizer, VOCAB_SIZE, datasets, caption_model, fit,
                   early_stopping, wandb_log, run, stdout, disk>>

\* valid_metrics = caption_model.evaluate(valid_dataset, ...)
EvaluateValid ==
    /\ Goto("evaluate_valid", "log_train_valid")
    /\ metrics' = [metrics EXCEPT !["valid"] = evaluate("valid")]
    /\ UNCHANGED <<crashedAt, cfg, files, train_data, valid_data, test_data, text_data,
                   tokenizer, VOCAB_SIZE, datasets, caption_model, fit,
                   early_stopping, wandb_log, run, stdout, disk>>

\* wandb.log({'Train Loss': ..., 'Train Accuracy': ..., 'Valid Loss': ..., ...})
LogTrainValid ==
    /\ Goto("log_train_valid", "evaluate_test")
    /\ wandb_log' = Append(wandb_log,
            ("Train Loss" :> <<"loss", metrics["train"]>>)
         @@ ("Train Accuracy" :> <<"acc", metrics["train"]>>)
         @@ ("Valid Loss" :> <<"loss", metrics["valid"]>>)
         @@ ("Valid Accuracy" :> <<"acc", metrics["valid"]>>))
    /\ UNCHANGED <<crashedAt, cfg, files, train_data, valid_data, test_data, text_data,
                   tokenizer, VOCAB_SIZE, datasets, caption_model, fit,
                   early_stopping, metrics, run, stdout, disk>>

\* (Variant for C3: the test set is evaluated whatever TEST_SET is.)
EvaluatesTestMutAlways(test_set) == TRUE

\* if TEST_SET: test_metrics = caption_model.evaluate(test_dataset, ...);
\*              wandb.log({'Test Loss': ..., 'Test Accuracy': ...})
EvaluatesTest(test_set) == test_set

EvaluateTest ==
    /\ Goto("evaluate_test", "print_summary")
    /\ IF EvaluatesTest(cfg.TEST_SET)
       THEN /\ metrics' = [metrics EXCEPT !["test"] = evaluate("test")]
            /\ wandb_log' = Append(wandb_log,
                    ("Test Loss" :> <<"loss", evaluate("test")>>)
                 @@ ("Test Accuracy" :> <<"acc", evaluate("test")>>))
       ELSE UNCHANGED <<metrics, wandb_log>>
    /\ UNCHANGED <<crashedAt, cfg, files, train_data, valid_data, test_data, text_data,
                   tokenizer, VOCAB_SIZE, datasets, caption_model, fit,
                   early_stopping, run, stdout, disk>>

\* the three prints of the summary, the last one under if TEST_SET
PrintSummary ==
    /\ Goto("print_summary", "save_history")
    /\ stdout' = stdout \o <<"Train Loss - Train Accuracy", "Valid Loss - Valid Accuracy">>
                        \o (IF cfg.TEST_SET THEN <<"Test Loss - Test Accuracy">> ELSE <<>>)
    /\ UNCHANGED <<crashedAt, cfg, files, train_data, valid_data, test_data, text_data,
                   tokenizer, VOCAB_SIZE, datasets, caption_model, fit,
                   early_stopping, metrics, wandb_log, run, disk>>

(* ----------------------------- persistence ---------------------------- *)

\* json.dump(history.history, open(SAVE_DIR + 'history.json', 'w'))
SaveHistory ==
    /\ Goto("save_history", "save_weights")
    /\ disk' = [disk EXCEPT !.order = Append(@, "history.json"),
                            !.history = fit.history]
    /\ UNCHANGED <<crashedAt, cfg, files, train_data, valid_data, test_data, text_data,
                   tokenizer, VOCAB_SIZE, datasets, caption_model, fit,
                   early_stopping, metrics, wandb_log, run, stdout>>

\* (Variant for C6: the mirror to the tracker is skipped.)
SaveWeightsMutSkipMirror ==
    /\ Goto("save_weights", "save_config")
    /\ disk' = [disk EXCEPT !.order = Append(@, "weights.h5"),
                            !.weights = caption_model.weights]
    /\ UNCHANGED <<crashedAt, cfg, files, train_data, valid_data, test_data, text_data,
                   tokenizer, VOCAB_SIZE, datasets, caption_model, fit,
                   early_stopping, metrics, wandb_log, run, stdout>>

\* caption_model.save_weights(SAVE_DIR + 'big_model_weights_coco.weights.h5')
SaveWeights ==
    /\ Goto("save_weights", "mirror_weights")
    /\ disk' = [disk EXCEPT !.order = Append(@, "weights.h5"),
                            !.weights = caption_model.weights]
    /\ UNCHANGED <<crashedAt, cfg, files, train_data, valid_data, test_data, text_data,
                   tokenizer, VOCAB_SIZE, datasets, caption_model, fit,
                   early_stopping, metrics, wandb_log, run, stdout>>

\* run.save(SAVE_DIR + 'big_model_weights_coco.weights.h5')
MirrorWeights ==
    /\ Goto("mirror_weights", "save_config")
    /\ run' = [run EXCEPT !.saved = Append(@, "weights.h5")]
    /\ UNCHANGED <<crashedAt, cfg, files, train_data, valid_data, test_data, text_data,
                   tokenizer, VOCAB_SIZE, datasets, caption_model, fit,
                   early_stopping, metrics, wandb_log, stdout, disk>>

\* json.dump(config_train, open(SAVE_DIR + 'config_train.json', 'w'))
SaveConfig ==
    /\ Goto("save_config", "save_tokenizer")
    /\ disk' = [disk EXCEPT !.order = Append(@, "config_train.json"),
                            !.config_vocab_size = VOCAB_SIZE,
                            !.config_epochs = cfg.EPOCHS]
    /\ UNCHANGED <<crashedAt, cfg, files, train_data, valid_data, test_data, text_data,
                   tokenizer, VOCAB_SIZE, datasets, caption_model, fit,
                   early_stopping, metrics, wandb_log, run, stdout>>

\* save_tokenizer(tokenizer, SAVE_DIR)
SaveTokenizer ==
    /\ Goto("save_tokenizer", "finish")
    /\ disk' = [disk EXCEPT !.order = Append(@, "tokenizer"),
                            !.tokenizer_vocab = tokenizer.vocab]
    /\ UNCHANGED <<crashedAt, cfg, files, train_data, valid_data, test_data, text_data,
                   tokenizer, VOCAB_SIZE, datasets, caption_model, fit,
                   early_stopping, metrics, wandb_log, run, stdout>>

\* run.finish()
Finish ==
    /\ Goto("finish", "done")
    /\ run' = [run EXCEPT !.finished = TRUE]
    /\ UNCHANGED <<crashedAt, cfg, files, train_data, valid_data, test_data, text_data,
                   tokenizer, VOCAB_SIZE, datasets, caption_model, fit,
                   early_stopping, metrics, wandb_log, stdout, disk>>

(* ------------------------------ failure ------------------------------- *)

\* The statements that reach outside the process (files, the tracker, the
\* framework's execution) and so can raise.
Raising == {"load_data", "log_sample_counts", "train_batch", "evaluate_train", "evaluate_valid",
            "log_train_valid", "evaluate_test", "save_history", "save_weights",
            "mirror_weights", "save_config", "save_tokenizer", "finish"}

\* The file a persistence statement opens for writing before it can fail.
Opens(label) ==
    CASE label = "save_history"   -> <<"history.json">>
      [] label = "save_weights"   -> <<"weights.h5">>
      [] label = "save_config"    -> <<"config_train.json">>
      [] label = "save_tokenizer" -> <<"tokenizer">>
      [] OTHER                    -> <<>>

\* (Variant for C7: a failure removes what was written.)
FailMutRollback ==
    /\ pc \in Raising
    /\ pc' = "crashed"
    /\ crashedAt' = pc
    /\ trace' = Append(trace, "raise")
    /\ disk' = [disk EXCEPT !.order = <<>>, !.partial = {}]
    /\ UNCHANGED <<cfg, files, train_data, valid_data, test_data, text_data, tokenizer,
                   VOCAB_SIZE, datasets, caption_model, fit, early_stopping,
                   metrics, wandb_log, run, stdout>>

\* Nothing catches an exception: the process ends at the statement that
\* raised.  A statement that had opened its file leaves it behind, partial.
Fail ==
    /\ pc \in Raising
    /\ pc' = "crashed"
    /\ crashedAt' = pc
    /\ trace' = Append(trace, "raise")
    /\ \E opened \in {<<>>, Opens(pc)} :
          disk' = [disk EXCEPT !.order = @ \o opened,
                               !.partial = @ \cup {opened[i] : i \in 1..Len(opened)}]
    /\ UNCHANGED <<cfg, files, train_data, valid_data, test_data, text_data, tokenizer,
                   VOCAB_SIZE, datasets, caption_model, fit, early_stopping,
                   metrics, wandb_log, run, stdout>>

(* ---------------------------- specification --------------------------- *)

Next ==
    \/ LoadData
    \/ ReduceDataset
    \/ LogSampleCounts
    \/ DefineTokenizer
    \/ AdaptTokenizer
    \/ SetVocabSize
    \/ SplitValidTest
    \/ MakeTrainDataset
    \/ MakeValidDataset
    \/ MakeTestDataset
    \/ BuildModel
    \/ Compile
    \/ FitBegin
    \/ TrainBatch
    \/ EpochEnd
    \/ FitEnd
    \/ EvaluateTrain
    \/ EvaluateValid
    \/ LogTrainValid
    \/ EvaluateTest
    \/ PrintSummary
    \/ SaveHistory
    \/ SaveWeights
    \/ MirrorWeights
    \/ SaveConfig
    \/ SaveTokenizer
    \/ Finish
    \/ Fail

Spec == Init /\ [][Next]_vars

(* ======================= properties of the script ===================== *)

Count(seq, x) == Cardinality({i \in 1..Len(seq) : seq[i] = x})

IsPrefix(s, t) == Len(s) <= Len(t) /\ \A i \in 1..Len(s) : s[i] = t[i]

\* The first position of x in seq (0: none).
First(seq, x) ==
    IF \E i \in 1..Len(seq) : seq[i] = x
    THEN CHOOSE i \in 1..Len(seq) : seq[i] = x /\ \A j \in 1..(i - 1) : seq[j] # x
    ELSE 0

Ran(label) == First(trace, label) > 0

PipelineOrder == <<"load data", "fit tokenizer", "build datasets", "build model",
                   "train", "evaluate", "persist">>

\* The place in PipelineOrder of the stage each statement belongs to.
StageIndex(label) ==
    CASE label \in {"load_data", "reduce_dataset", "log_sample_counts"} -> 1
      [] label \in {"define_tokenizer", "adapt_tokenizer", "set_vocab_size"} -> 2
      [] label \in {"split_valid_test", "make_train_dataset", "make_valid_dataset",
                    "make_test_dataset"} -> 3
      [] label \in {"build_model", "compile"} -> 4
      [] label \in {"fit_begin", "train_batch", "epoch_end", "fit_end"} -> 5
      [] label \in {"evaluate_train", "evaluate_valid", "log_train_valid",
                    "evaluate_test", "print_summary"} -> 6
      [] label \in {"save_history", "save_weights", "mirror_weights", "save_config",
                    "save_tokenizer", "finish"} -> 7

\* The statements that ran to completion (a raise ends the run where it is).
Statements == SelectSeq(trace, LAMBDA label : label # "raise")

C2_TokenizerAdaptedOnce ==
    /\ tokenizer.adapts <= 1
    /\ Count(trace, "adapt_tokenizer") = tokenizer.adapts
    /\ \A s \in {"train", "valid", "test"} :
          datasets[s].built =>
             /\ datasets[s].adapted = 1
             /\ tokenizer.adapts = 1
             /\ datasets[s].vocab = tokenizer.vocab
             /\ First(trace, "adapt_tokenizer") < First(trace, "make_" \o s \o "_dataset")
    /\ Ran("save_tokenizer") =>
          /\ disk.tokenizer_vocab = tokenizer.vocab
          /\ \A s \in {"train", "valid", "test"} :
                datasets[s].built => datasets[s].vocab = disk.tokenizer_vocab
    /\ Ran("set_vocab_size") => tokenizer.vocab = Adapt(text_data, MAX_VOCAB_SIZE)

C2_Witness ==
    /\ Ran("save_tokenizer")
    /\ cfg.TEST_SET
    /\ datasets["test"].built
    /\ Len(disk.tokenizer_vocab) > 2

\* The keys of a record sent to the tracker.
Keys(record) == DOMAIN record

TestKeys == {"Test Loss", "Test Accuracy"}
TrainValidKeys == {"Train Loss", "Train Accuracy", "Valid Loss", "Valid Accuracy"}
TestLine == "Test Loss - Test Accuracy"

\* C3: with TEST_SET disabled no test key is sent to the tracker, no test line
\* is printed and no test dataset is built or evaluated; with TEST_SET enabled
\* the test dataset is built before it is evaluated, and the test metrics are
\* logged after the train and validation metrics are logged and printed after
\* they are printed.
C3_TestSetGate ==
    /\ ~cfg.TEST_SET =>
          /\ \A i \in 1..Len(wandb_log) : Keys(wandb_log[i]) \cap TestKeys = {}
          /\ \A i \in 1..Len(stdout) : stdout[i] # TestLine
          /\ ~datasets["test"].built
          /\ ~metrics["test"].evaluated
    /\ cfg.TEST_SET =>
          /\ metrics["test"].evaluated =>
                /\ datasets["test"].built
                /\ First(trace, "make_test_dataset") < First(trace, "evaluate_test")
          /\ \A i \in 1..Len(wandb_log) :
                Keys(wandb_log[i]) \cap TestKeys # {} =>
                   /\ Keys(wandb_log[i]) = TestKeys
                   /\ metrics["test"].evaluated
                   /\ \E j \in 1..(i - 1) : Keys(wandb_log[j]) = TrainValidKeys
          /\ \A i \in 1..Len(stdout) :
                stdout[i] = TestLine =>
                   /\ \E j \in 1..(i - 1) : stdout[j] = "Train Loss - Train Accuracy"
                   /\ \E j \in 1..(i - 1) : stdout[j] = "Valid Loss - Valid Accuracy"
          /\ Ran("evaluate_test") =>
                \E i \in 1..Len(wandb_log) : Keys(wandb_log[i]) = TestKeys
          /\ Ran("print_summary") => Count(stdout, TestLine) = 1

C3_Witness ==
    /\ pc = "done"
    /\ ~cfg.TEST_SET
    /\ test_data # {}
    /\ \E i \in 1..Len(wandb_log) : Keys(wandb_log[i]) = TrainValidKeys
    /\ Count(stdout, "Valid Loss - Valid Accuracy") = 1

\* The monitored values of the epochs run so far.
ValLosses == [i \in 1..Len(fit.history.val_loss) |-> fit.history.val_loss[i][4]]

\* Epoch i (1-based) did not improve on the best value of the epochs before it.
NoImprovement(L, i) == \E j \in 1..(i - 1) : L[i] >= L[j]

\* The patience window is exhausted at epoch e: the last 3 epochs up to e
\* brought no improvement.
Exhausted(L, e) ==
    /\ e >= patience
    /\ e <= Len(L)
    /\ \A i \in (e - patience + 1)..e : NoImprovement(L, i)

\* The first epoch with the best monitored value, and the model's weights at
\* the end of epoch e (one optimizer step per batch).
BestEpoch(L) == CHOOSE e \in 1..Len(L) : /\ \A j \in 1..Len(L) : L[e] <= L[j]
                                        /\ \A j \in 1..(e - 1) : L[j] > L[e]
WeightsAfter(e) == e * NumBatches(datasets["train"])

\* What is evaluated and saved after fit are the weights fit left.
EvaluatedAndSaved(w) ==
    /\ \A s \in {"train", "valid", "test"} :
          metrics[s].evaluated => metrics[s].weights = w
    /\ Ran("save_weights") => disk.weights = w

\* C4, as stated: fit halts before EPOCHS exactly when the patience window is
\* exhausted, and whenever it has stopped the weights evaluated and saved are
\* those of the best epoch.
C4_AsStated ==
    fit.done =>
       /\ Len(ValLosses) < cfg.EPOCHS <=> \E e \in 1..Len(ValLosses) : Exhausted(ValLosses, e)
       /\ caption_model.weights = WeightsAfter(BestEpoch(ValLosses))
       /\ EvaluatedAndSaved(WeightsAfter(BestEpoch(ValLosses)))

\* C4, amended: fit halts before EPOCHS exactly when the patience window is
\* exhausted at an epoch before the last configured one, and it halts at the
\* first such epoch; whenever the window is exhausted (at the last configured
\* epoch too) the weights evaluated and saved are those of the best epoch; a
\* fit that runs all EPOCHS without exhausting the window leaves the last
\* epoch's weights unless the framework restores the best ones at train end.
C4_EarlyStopping ==
    fit.done =>
       /\ Len(ValLosses) < cfg.EPOCHS <=>
             \E e \in 1..(cfg.EPOCHS - 1) : Exhausted(ValLosses, e)
       /\ \A e \in 1..(Len(ValLosses) - 1) : ~Exhausted(ValLosses, e)
       /\ Len(ValLosses) <= cfg.EPOCHS
       /\ fit.stop_training <=> Exhausted(ValLosses, Len(ValLosses))
       /\ (fit.stop_training \/ fit.restore_on_train_end) =>
             caption_model.weights = WeightsAfter(BestEpoch(ValLosses))
       /\ (~fit.stop_training /\ ~fit.restore_on_train_end) =>
             caption_model.weights = WeightsAfter(cfg.EPOCHS)
       /\ EvaluatedAndSaved(caption_model.weights)

C4_Witness ==
    /\ Ran("save_weights")
    /\ Len(ValLosses) < cfg.EPOCHS
    /\ BestEpoch(ValLosses) = 2
    /\ disk.weights = WeightsAfter(2)
    /\ metrics["valid"].weights = WeightsAfter(2)

\* The epochs and the batches actually run.
EpochsRun == Count(trace, "epoch_end")
BatchesRun == Count(trace, "train_batch")

Written(file) ==
    /\ \E i \in 1..Len(disk.order) : disk.order[i] = file
    /\ file \notin disk.partial

BatchKeys == {"batch_train_loss", "batch_train_accuracy"}
EpochKeys == {"epoch_train_loss", "epoch_valid_loss", "epoch_valid_accuracy"}

\* The records of log with the given keys, in order.
RecordsWith(log, keys) == SelectSeq(log, LAMBDA record : Keys(record) = keys)

\* C8, as stated: every batch run has one record with its training loss and
\* accuracy, and every epoch run has one record with its training loss,
\* training accuracy, validation loss and validation accuracy.
C8_AsStated ==
    /\ Len(RecordsWith(wandb_log, BatchKeys)) = BatchesRun
    /\ Len(RecordsWith(wandb_log, EpochKeys \cup {"epoch_train_accuracy"})) = EpochsRun

\* C8, amended: every batch run has exactly one record, with that batch's
\* training loss and accuracy; every epoch run has exactly one record, with
\* that epoch's training loss, validation loss and validation accuracy and no
\* training accuracy; the record of an epoch follows the records of its batches.
C8_LoggingCallback ==
    LET batches == RecordsWith(wandb_log, BatchKeys)
        epochs  == RecordsWith(wandb_log, EpochKeys)
        nb      == NumBatches(datasets["train"])
    IN  /\ Len(batches) = BatchesRun
        /\ Len(epochs) = EpochsRun
        /\ \A i \in 1..Len(wandb_log) :
              /\ "epoch_train_accuracy" \notin Keys(wandb_log[i])
              /\ Keys(wandb_log[i]) \cap (BatchKeys \cup EpochKeys) # {} =>
                    Keys(wandb_log[i]) \in {BatchKeys, EpochKeys}
        /\ \A i \in 1..Len(batches) :
              /\ batches[i]["batch_train_loss"] =
                    Measure("loss", (i - 1) \div nb, (i - 1) % nb, 0)
              /\ batches[i]["batch_train_accuracy"] =
                    Measure("acc", (i - 1) \div nb, (i - 1) % nb, 0)
        /\ \A e \in 1..Len(epochs) :
              /\ epochs[e]["epoch_train_loss"] = fit.history.loss[e]
              /\ epochs[e]["epoch_valid_loss"] = fit.history.val_loss[e]
              /\ epochs[e]["epoch_valid_accuracy"] = fit.history.val_acc[e]
              /\ epochs[e]["epoch_train_loss"][2] = e - 1
              /\ epochs[e]["epoch_valid_loss"][1] = "val_loss"
              /\ \E i \in 1..Len(wandb_log) :
                    /\ wandb_log[i] = epochs[e]
                    /\ Cardinality({j \in 1..i : Keys(wandb_log[j]) = BatchKeys}) = e * nb

C8_Witness ==
    /\ fit.done
    /\ EpochsRun >= 2
    /\ NumBatches(datasets["train"]) >= 2
    /\ Len(RecordsWith(wandb_log, EpochKeys)) = EpochsRun
    /\ Len(RecordsWith(wandb_log, BatchKeys)) = 2 * EpochsRun

ArtifactOrder == <<"history.json", "weights.h5", "config_train.json", "tokenizer">>
PersistOrder == <<"save_history", "save_weights", "mirror_weights", "save_config",
                  "save_tokenizer", "finish">>

OnDisk(file) == \E i \in 1..Len(disk.order) : disk.order[i] = file

\* C6: the persistence statements run in the order history.json, weights,
\* mirror of the weights to the tracker, config_train.json, tokenizer, and the
\* run is finished after all of them; nothing is written before evaluation
\* (and the summary) has completed.
C6_PersistenceOrder ==
    /\ IsPrefix(SelectSeq(Statements, LAMBDA label : StageIndex(label) = 7), PersistOrder)
    /\ IsPrefix(disk.order, ArtifactOrder)
    /\ run.saved # <<>> => run.saved = <<"weights.h5">> /\ Written("weights.h5")
    /\ OnDisk("config_train.json") => run.saved = <<"weights.h5">>
    /\ run.finished =>
          /\ \A i \in 1..Len(ArtifactOrder) : Written(ArtifactOrder[i])
          /\ run.saved = <<"weights.h5">>
    /\ (disk.order # <<>> \/ run.saved # <<>> \/ run.finished) =>
          /\ fit.done
          /\ metrics["train"].evaluated
          /\ metrics["valid"].evaluated
          /\ cfg.TEST_SET => metrics["test"].evaluated
          /\ Ran("print_summary")

C6_Witness ==
    /\ pc = "done"
    /\ run.finished
    /\ disk.order = ArtifactOrder
    /\ disk.partial = {}

\* The artifacts written by the persistence statements before label.
ArtifactsBefore(label) ==
    CASE label = "save_history"   -> <<>>
      [] label = "save_weights"   -> <<"history.json">>
      [] label = "mirror_weights" -> <<"history.json", "weights.h5">>
      [] label = "save_config"    -> <<"history.json", "weights.h5">>
      [] label = "save_tokenizer" -> <<"history.json", "weights.h5", "config_train.json">>
      [] label = "finish"         -> ArtifactOrder

\* C7: a failure at a persistence statement ends the process there: nothing
\* runs after it (no retry), every artifact written before it is on disk,
\* complete and unchanged (no rollback), no later artifact is written, the run
\* is not finished, and what is on disk is a prefix of history.json, weights,
\* config_train.json, tokenizer (the last of them may be the partial file of
\* the statement that failed).
C7_PartialArtifacts ==
    (pc = "crashed" /\ crashedAt \in {PersistOrder[i] : i \in 1..Len(PersistOrder)}) =>
       /\ ~ENABLED Next
       /\ ~run.finished
       /\ IsPrefix(disk.order, ArtifactOrder)
       /\ disk.order \in {ArtifactsBefore(crashedAt),
                          ArtifactsBefore(crashedAt) \o Opens(crashedAt)}
       /\ \A i \in 1..Len(ArtifactsBefore(crashedAt)) :
             Written(ArtifactsBefore(crashedAt)[i])
       /\ Written("history.json") => disk.history = fit.history
       /\ Written("weights.h5") => disk.weights = caption_model.weights
       /\ Written("config_train.json") => disk.config_vocab_size = VOCAB_SIZE
       /\ Written("tokenizer") => disk.tokenizer_vocab = tokenizer.vocab
       /\ run.saved = IF crashedAt \in {"save_config", "save_tokenizer", "finish"}
                      THEN <<"weights.h5">> ELSE <<>>

C7_Witness ==
    /\ pc = "crashed"
    /\ crashedAt = "save_config"
    /\ disk.order = <<"history.json", "weights.h5", "config_train.json">>
    /\ disk.partial = {"config_train.json"}
    /\ Written("weights.h5")

\* The distinct words of the corpus.
CorpusWords == {w \in Words : text_data[w] > 0}

\* C9: VOCAB_SIZE is set once, right after the adaptation, to the length of
\* the fitted vocabulary (the reserved tokens and the corpus words, at most
\* MAX_VOCAB_SIZE); the decoder's vocab_size, the VOCAB_SIZE of
\* config_train.json and the length of the saved vocabulary are that value.
C9_VocabSize ==
    /\ Count(trace, "set_vocab_size") <= 1
    /\ ~Ran("set_vocab_size") => VOCAB_SIZE = 0
    /\ Ran("set_vocab_size") =>
          /\ trace[First(trace, "set_vocab_size") - 1] = "adapt_tokenizer"
          /\ VOCAB_SIZE = Len(tokenizer.vocab)
          /\ VOCAB_SIZE <= MAX_VOCAB_SIZE
          /\ VOCAB_SIZE = Min(MAX_VOCAB_SIZE, 2 + Cardinality(CorpusWords))
    /\ caption_model.built => caption_model.vocab_size = VOCAB_SIZE
    /\ Written("config_train.json") =>
          /\ disk.config_vocab_size = VOCAB_SIZE
          /\ disk.config_vocab_size = caption_model.vocab_size
    /\ Written("tokenizer") => Len(disk.tokenizer_vocab) = disk.config_vocab_size

C9_Witness ==
    /\ Written("tokenizer")
    /\ 2 + Cardinality(CorpusWords) > MAX_VOCAB_SIZE
    /\ disk.config_vocab_size = MAX_VOCAB_SIZE
    /\ caption_model.vocab_size = MAX_VOCAB_SIZE

\* The validation set as it is when the sample counts are logged.
PreSplit == IF cfg.REDUCE_DATASET THEN reduce_dataset_dim(files.valid) ELSE files.valid

SampleKeys == {"Number of training samples", "Number of validation samples"}

\* C10: the split runs whatever TEST_SET is, after the sample counts were
\* printed and logged; the count of validation samples sent to the tracker
\* is the size before the split; the validation dataset that fit validates on
\* and that is evaluated is the validation subset of the split; with TEST_SET
\* disabled the test subset is taken out of the validation set all the same
\* and is never built into a dataset or evaluated.
C10_SplitUnconditional ==
    /\ Len(RecordsWith(wandb_log, SampleKeys)) <= 1
    /\ Ran("split_valid_test") =>
          /\ Ran("log_sample_counts")
          /\ First(trace, "log_sample_counts") < First(trace, "split_valid_test")
          /\ Keys(wandb_log[1]) = SampleKeys
          /\ wandb_log[1]["Number of validation samples"] = Cardinality(PreSplit)
          /\ wandb_log[1]["Number of validation samples"] =
                Cardinality(valid_data) + Cardinality(test_data)
          /\ valid_data = valid_test_split(PreSplit).valid
          /\ test_data = valid_test_split(PreSplit).test
          /\ valid_data \cap test_data = {}
          /\ First(stdout, "Number of validation samples") <
                First(stdout, "Number of validation samples after splitting with test set")
    /\ datasets["valid"].built =>
          datasets["valid"].images = valid_test_split(PreSplit).valid
    /\ Ran("fit_begin") => fit.validation_data = valid_test_split(PreSplit).valid
    /\ metrics["valid"].evaluated =>
          metrics["valid"].images = valid_test_split(PreSplit).valid
    /\ datasets["test"].built =>
          cfg.TEST_SET /\ datasets["test"].images = valid_test_split(PreSplit).test
    /\ ~cfg.TEST_SET => ~datasets["test"].built /\ ~metrics["test"].evaluated

C10_Witness ==
    /\ pc = "done"
    /\ ~cfg.TEST_SET
    /\ test_data # {}
    /\ wandb_log[1]["Number of validation samples"] > Cardinality(datasets["valid"].images)
    /\ metrics["valid"].images = valid_data
    /\ ~datasets["test"].built

====
